---- MODULE Spec2Model ----
(***************************************************************************)
(* Model of the live-stream capture monitor (src/app.py, LiveMonitor):     *)
(* trigger detection, record extraction, duplicate check, capture store    *)
(* and the continuous detection loop.                                      *)
(*                                                                         *)
(* Text is modelled at character level: a Python str is a sequence of      *)
(* one-character strings, so that the regular expressions, str.lower and   *)
(* the substring tests of the source are computed, not assumed.            *)
(***************************************************************************)
EXTENDS Integers, Sequences, FiniteSets, TLC

(***************************************************************************)
(* Characters and character classes                                        *)
(***************************************************************************)

\* the full-width colon U+FF1A, one character of the ID pattern class [：:]
FWColon == "FWCOLON"

\* a kana letter (a word character for \w) and the yen sign
Kana == "KANA"

Yen == "YEN"

Digits == {"0", "1", "2", "3", "4", "5", "6", "7", "8", "9"}

LowerLetters ==
    {"a", "b", "c", "d", "e", "f", "g", "h", "i", "j", "k", "l", "m",
     "n", "o", "p", "q", "r", "s", "t", "u", "v", "w", "x", "y", "z"}

UpperLetters ==
    {"A", "B", "C", "D", "E", "F", "G", "H", "I", "J", "K", "L", "M",
     "N", "O", "P", "Q", "R", "S", "T", "U", "V", "W", "X", "Y", "Z"}

\* str.lower() on one character
LowerChar(c) ==
    CASE c = "A" -> "a" [] c = "B" -> "b" [] c = "C" -> "c" [] c = "D" -> "d"
      [] c = "E" -> "e" [] c = "F" -> "f" [] c = "G" -> "g" [] c = "H" -> "h"
      [] c = "I" -> "i" [] c = "J" -> "j" [] c = "K" -> "k" [] c = "L" -> "l"
      [] c = "M" -> "m" [] c = "N" -> "n" [] c = "O" -> "o" [] c = "P" -> "p"
      [] c = "Q" -> "q" [] c = "R" -> "r" [] c = "S" -> "s" [] c = "T" -> "t"
      [] c = "U" -> "u" [] c = "V" -> "v" [] c = "W" -> "w" [] c = "X" -> "x"
      [] c = "Y" -> "y" [] c = "Z" -> "z" [] OTHER -> c

\* str.lower() on a string
Lower(s) == [j \in 1..Len(s) |-> LowerChar(s[j])]

\* \d
IsDigit(c) == c \in Digits

\* \s
IsSpace(c) == c = " "

\* \w : the characters between which \b sees no boundary
IsWordChar(c) == c \in Digits \cup LowerLetters \cup UpperLetters \cup {"_", Kana}

(***************************************************************************)
(* str.find and the `in` operator                                          *)
(***************************************************************************)

\* sub occurs in s starting at position p (1-based)
OccursAt(s, sub, p) ==
    /\ p >= 1
    /\ p + Len(sub) - 1 <= Len(s)
    /\ \A j \in 1..Len(sub) : s[p + j - 1] = sub[j]

RECURSIVE FindFrom(_, _, _)
FindFrom(s, sub, p) ==
    IF p + Len(sub) - 1 > Len(s) THEN 0
    ELSE IF OccursAt(s, sub, p) THEN p
    ELSE FindFrom(s, sub, p + 1)

\* s.find(sub): 1-based position of the first occurrence, 0 when absent
\* (Python: 0-based position, -1 when absent)
Find(s, sub) == FindFrom(s, sub, 1)

\* sub in s
Contains(s, sub) == Find(s, sub) > 0

(***************************************************************************)
(* re.findall(r'\b(\d{1,4})\b', s)                                         *)
(***************************************************************************)

WordAt(s, p) == p >= 1 /\ p <= Len(s) /\ IsWordChar(s[p])

\* \b between positions p-1 and p
WordBoundary(s, p) == WordAt(s, p - 1) # WordAt(s, p)

DigitsAt(s, p, k) == p + k - 1 <= Len(s) /\ \A j \in p..(p + k - 1) : IsDigit(s[j])

\* length of the match of \b(\d{1,4})\b at p, 0 when there is none; the
\* quantifier is greedy, so the longest admissible k is tried first
NumMatchLen(s, p) ==
    LET ks == {k \in 1..4 : /\ WordBoundary(s, p)
                            /\ DigitsAt(s, p, k)
                            /\ WordBoundary(s, p + k)}
    IN  IF ks = {} THEN 0 ELSE CHOOSE k \in ks : \A k2 \in ks : k2 <= k

RECURSIVE FindNumbersFrom(_, _)
FindNumbersFrom(s, p) ==
    IF p > Len(s) THEN <<>>
    ELSE LET k == NumMatchLen(s, p)
         IN  IF k = 0 THEN FindNumbersFrom(s, p + 1)
             ELSE <<SubSeq(s, p, p + k - 1)>> \o FindNumbersFrom(s, p + k)

FindNumbers(s) == FindNumbersFrom(s, 1)

(***************************************************************************)
(* re.findall of the two ID patterns                                       *)
(***************************************************************************)

RECURSIVE SpaceRun(_, _)
\* number of consecutive \s characters of s from p on
SpaceRun(s, p) ==
    IF p <= Len(s) /\ IsSpace(s[p]) THEN 1 + SpaceRun(s, p + 1) ELSE 0

RECURSIVE DigitRun(_, _)
\* number of consecutive \d characters of s from p on
DigitRun(s, p) ==
    IF p <= Len(s) /\ IsDigit(s[p]) THEN 1 + DigitRun(s, p + 1) ELSE 0

IsIdPrefix(s, p) ==
    /\ p + 1 <= Len(s)
    /\ s[p] \in {"I", "i"}
    /\ s[p + 1] \in {"D", "d"}

\* [Ii][Dd][：:]\s*(\d+) at p: <<first, last>> of the captured group, or <<>>
ColonIdAt(s, p) ==
    IF IsIdPrefix(s, p) /\ p + 2 <= Len(s) /\ s[p + 2] \in {":", FWColon}
    THEN LET q == p + 3 + SpaceRun(s, p + 3)
             d == DigitRun(s, q)
         IN  IF d >= 1 THEN <<q, q + d - 1>> ELSE <<>>
    ELSE <<>>

\* [Ii][Dd]\s+(\d+) at p: <<first, last>> of the captured group, or <<>>
SpaceIdAt(s, p) ==
    IF IsIdPrefix(s, p) /\ SpaceRun(s, p + 2) >= 1
    THEN LET q == p + 2 + SpaceRun(s, p + 2)
             d == DigitRun(s, q)
         IN  IF d >= 1 THEN <<q, q + d - 1>> ELSE <<>>
    ELSE <<>>

RECURSIVE FindColonIdsFrom(_, _)
FindColonIdsFrom(s, p) ==
    IF p > Len(s) THEN <<>>
    ELSE LET m == ColonIdAt(s, p)
         IN  IF m = <<>> THEN FindColonIdsFrom(s, p + 1)
             ELSE <<SubSeq(s, m[1], m[2])>> \o FindColonIdsFrom(s, m[2] + 1)

RECURSIVE FindSpaceIdsFrom(_, _)
FindSpaceIdsFrom(s, p) ==
    IF p > Len(s) THEN <<>>
    ELSE LET m == SpaceIdAt(s, p)
         IN  IF m = <<>> THEN FindSpaceIdsFrom(s, p + 1)
             ELSE <<SubSeq(s, m[1], m[2])>> \o FindSpaceIdsFrom(s, m[2] + 1)

RECURSIVE JoinLines(_)
\* " ".join(lines)
JoinLines(ls) ==
    IF ls = <<>> THEN <<>>
    ELSE IF Len(ls) = 1 THEN ls[1]
    ELSE ls[1] \o <<" ">> \o JoinLines(Tail(ls))

RECURSIVE FindIdsFrom(_, _)
\* the matches of either pattern, in the order they stand in the text
FindIdsFrom(s, p) ==
    IF p > Len(s) THEN <<>>
    ELSE LET m == IF ColonIdAt(s, p) # <<>> THEN ColonIdAt(s, p) ELSE SpaceIdAt(s, p)
         IN  IF m = <<>> THEN FindIdsFrom(s, p + 1)
             ELSE <<SubSeq(s, m[1], m[2])>> \o FindIdsFrom(s, m[2] + 1)

\* mutant of all_ids: one pass over the text with both patterns
all_ids_TextOrder(ls) == FindIdsFrom(JoinLines(ls), 1)

\* all_ids: the matches of pattern 1, then the matches of pattern 2
all_ids(ls) ==
    LET full_text == JoinLines(ls)
    IN  FindColonIdsFrom(full_text, 1) \o FindSpaceIdsFrom(full_text, 1)

InSeq(x, sq) == \E j \in 1..Len(sq) : sq[j] = x

RECURSIVE DedupKeepOrder(_, _)
\* the seen-set loop: keeps the first occurrence of every value
DedupKeepOrder(sq, acc) ==
    IF sq = <<>> THEN acc
    ELSE DedupKeepOrder(Tail(sq),
                        IF InSeq(Head(sq), acc) THEN acc ELSE Append(acc, Head(sq)))

\* mutant of unique_ids: repeats are kept
unique_ids_KeepRepeats(ls) == all_ids(ls)

unique_ids(ls) == DedupKeepOrder(all_ids(ls), <<>>)

(***************************************************************************)
(* Serial candidates next to the marker keywords                           *)
(***************************************************************************)

\* serial_keywords = ['mtk', 'yeye']
serial_keywords == << <<"m", "t", "k">>, <<"y", "e", "y", "e">> >>

\* mutant of TryKeyword: the text before the marker is searched before the
\* text after it
TryKeyword_BeforeFirst(ls, i, serial_keyword) ==
    LET line           == ls[i]
        line_lower     == Lower(line)
        keyword_pos    == Find(line_lower, serial_keyword)
        after_keyword  == SubSeq(line, keyword_pos + Len(serial_keyword), Len(line))
        numbers_after  == FindNumbers(after_keyword)
        before_keyword == SubSeq(line, 1, keyword_pos - 1)
        numbers_before == FindNumbers(before_keyword)
        numbers_prev   == FindNumbers(ls[i - 1])
        numbers_next   == FindNumbers(ls[i + 1])
    IN  IF ~Contains(line_lower, serial_keyword) THEN <<>>
        ELSE IF keyword_pos > 1 /\ numbers_before # <<>>
             THEN << [num |-> numbers_before[Len(numbers_before)], src |-> i] >>
        ELSE IF numbers_after # <<>>
             THEN << [num |-> numbers_after[1], src |-> i] >>
        ELSE IF i > 1 /\ numbers_prev # <<>>
             THEN << [num |-> numbers_prev[1], src |-> i - 1] >>
        ELSE IF i < Len(ls) /\ numbers_next # <<>>
             THEN << [num |-> numbers_next[1], src |-> i + 1] >>
        ELSE <<>>

\* One pass of the body of the keyword loop for line i and one marker keyword:
\* <<>> when nothing is appended, else the one appended candidate.  A
\* candidate carries the number (num, what the source appends) and the index
\* of the line it was read from (src: i, i-1 or i+1 in the source).
TryKeyword(ls, i, serial_keyword) ==
    LET line           == ls[i]
        line_lower     == Lower(line)
        keyword_pos    == Find(line_lower, serial_keyword)
        after_keyword  == SubSeq(line, keyword_pos + Len(serial_keyword), Len(line))
        numbers_after  == FindNumbers(after_keyword)
        before_keyword == SubSeq(line, 1, keyword_pos - 1)
        numbers_before == FindNumbers(before_keyword)
        numbers_prev   == FindNumbers(ls[i - 1])
        numbers_next   == FindNumbers(ls[i + 1])
    IN  IF ~Contains(line_lower, serial_keyword) THEN <<>>
        ELSE IF numbers_after # <<>>
             THEN << [num |-> numbers_after[1], src |-> i] >>
        ELSE IF keyword_pos > 1 /\ numbers_before # <<>>
             THEN << [num |-> numbers_before[Len(numbers_before)], src |-> i] >>
        ELSE IF i > 1 /\ numbers_prev # <<>>
             THEN << [num |-> numbers_prev[1], src |-> i - 1] >>
        ELSE IF i < Len(ls) /\ numbers_next # <<>>
             THEN << [num |-> numbers_next[1], src |-> i + 1] >>
        ELSE <<>>

RECURSIVE ScanKeywords_NoBreak(_, _, _)
\* mutant of ScanKeywords: the keyword loop does not break after an append
ScanKeywords_NoBreak(ls, i, k) ==
    IF k > Len(serial_keywords) THEN <<>>
    ELSE TryKeyword(ls, i, serial_keywords[k]) \o ScanKeywords_NoBreak(ls, i, k + 1)

RECURSIVE ScanKeywords(_, _, _)
\* the keyword loop of line i from keyword k on: it breaks at the first append
ScanKeywords(ls, i, k) ==
    IF k > Len(serial_keywords) THEN <<>>
    ELSE LET got == TryKeyword(ls, i, serial_keywords[k])
         IN  IF got # <<>> THEN got ELSE ScanKeywords(ls, i, k + 1)

RECURSIVE ScanLines(_, _)
\* the line loop from line i on
ScanLines(ls, i) ==
    IF i > Len(ls) THEN <<>>
    ELSE ScanKeywords(ls, i, 1) \o ScanLines(ls, i + 1)

\* the candidates in the order the source appends them to all_serials
serial_candidates(ls) == ScanLines(ls, 1)

all_serials(ls) ==
    LET cs == serial_candidates(ls) IN [j \in 1..Len(cs) |-> cs[j].num]

RECURSIVE IntValue(_)
\* int(s) of a string of decimal digits
IntValue(s) ==
    IF s = <<>> THEN 0
    ELSE 10 * IntValue(SubSeq(s, 1, Len(s) - 1))
         + (CHOOSE d \in 0..9 : ToString(d) = s[Len(s)])

\* mutant of SerialInRange: the lower end of the range is not tested
SerialInRange_NoLowerEnd(s) == IntValue(s) <= 9999

\* the range test 1 <= int(s) <= 9999
SerialInRange(s) == 1 <= IntValue(s) /\ IntValue(s) <= 9999

RECURSIVE UniqueCandidates(_, _)
\* the seen_serials loop: first occurrence of a number that is in range
UniqueCandidates(cs, acc) ==
    IF cs = <<>> THEN acc
    ELSE LET c    == Head(cs)
             seen == \E j \in 1..Len(acc) : acc[j].num = c.num
         IN  UniqueCandidates(Tail(cs),
                 IF ~seen /\ SerialInRange(c.num) THEN Append(acc, c) ELSE acc)

unique_candidates(ls) == UniqueCandidates(serial_candidates(ls), <<>>)

unique_serials(ls) ==
    LET cs == unique_candidates(ls) IN [j \in 1..Len(cs) |-> cs[j].num]

(***************************************************************************)
(* Wall clock: datetime.now() and strftime                                 *)
(***************************************************************************)

\* a clock reading t counts ticks; TicksPerDay ticks make one calendar day
TicksPerDay == 2

DigitChar(d) == ToString(d)

TwoDigits(n) == << DigitChar((n \div 10) % 10), DigitChar(n % 10) >>

\* datetime.now() at clock reading t: the run starts on 2025-11-17
DayOf(t) == 17 + (t \div TicksPerDay)

SecondOf(t) == t % TicksPerDay

\* strftime("%m-%d")
FormatDate(t) == <<"1", "1", "-">> \o TwoDigits(DayOf(t))

\* strftime("%Y%m%d_%H%M%S")
FormatTimestamp(t) ==
    <<"2", "0", "2", "5", "1", "1">> \o TwoDigits(DayOf(t))
        \o <<"_", "0", "0", "0", "0">> \o TwoDigits(SecondOf(t))

(***************************************************************************)
(* ProductInfo and extract_all_products                                    *)
(***************************************************************************)

\* the sentinel "unknown"
Unknown == <<"u", "n", "k", "n", "o", "w", "n">>

\* an attribute that the object does not have
Absent == <<"<", "a", "b", "s", "e", "n", "t", ">">>

\* ProductInfo(product_id, serial_number, label_date, raw_text, timestamp);
\* filepath defaults to ""; style_category is no field of the dataclass
ProductInfo(product_id, serial_number, label_date, raw_text, timestamp) ==
    [product_id     |-> product_id,
     serial_number  |-> serial_number,
     label_date     |-> label_date,
     raw_text       |-> raw_text,
     timestamp      |-> timestamp,
     filepath       |-> <<>>,
     style_category |-> Absent]

\* mutant of PairedProducts: IDs and serials are zipped, an ID without a
\* serial gets no record
PairedProducts_Zip(ids, serials, current_date, text, timestamp) ==
    [j \in 1..(IF Len(ids) <= Len(serials) THEN Len(ids) ELSE Len(serials)) |->
        ProductInfo(ids[j], serials[j], current_date, text, timestamp)]

\* mutant of PairedProducts: every record gets a timestamp of its own, the
\* call's timestamp followed by the record's position
PairedProducts_OwnTimestamp(ids, serials, current_date, text, timestamp) ==
    [j \in 1..Len(ids) |->
        ProductInfo(ids[j],
                    IF j <= Len(serials) THEN serials[j] ELSE Unknown,
                    current_date, text, timestamp \o <<"_">> \o TwoDigits(j))]

\* the records of the loop over unique_ids
PairedProducts(ids, serials, current_date, text, timestamp) ==
    [j \in 1..Len(ids) |->
        ProductInfo(ids[j],
                    IF j <= Len(serials) THEN serials[j] ELSE Unknown,
                    current_date, text, timestamp)]

\* mutant of UnpairedProducts: only the first serial gets a record
UnpairedProducts_FirstOnly(ids, serials, current_date, text, timestamp) ==
    IF ids = <<>> /\ serials # <<>>
    THEN << ProductInfo(Unknown, serials[1], current_date, text, timestamp) >>
    ELSE <<>>

\* the records of the branch "no ID, but serials"
UnpairedProducts(ids, serials, current_date, text, timestamp) ==
    IF ids = <<>> /\ serials # <<>>
    THEN [j \in 1..Len(serials) |->
             ProductInfo(Unknown, serials[j], current_date, text, timestamp)]
    ELSE <<>>

\* extract_all_products(text, lines); t1 and t2 are the readings of the two
\* datetime.now() calls (timestamp first, current_date later)
extract_all_products(text, ls, t1, t2) ==
    LET timestamp    == FormatTimestamp(t1)
        ids          == unique_ids(ls)
        serials      == unique_serials(ls)
        current_date == FormatDate(t2)
    IN  PairedProducts(ids, serials, current_date, text, timestamp)
            \o UnpairedProducts(ids, serials, current_date, text, timestamp)

(***************************************************************************)
(* check_trigger                                                           *)
(***************************************************************************)

RECURSIVE CheckTriggerFrom(_, _, _)
\* the loop over lines: returns at the first line that contains the keyword
CheckTriggerFrom(ls, keyword, i) ==
    IF i > Len(ls) THEN FALSE
    ELSE IF Contains(Lower(ls[i]), keyword) THEN TRUE
    ELSE CheckTriggerFrom(ls, keyword, i + 1)

\* mutant of check_trigger: the keyword is not lowercased
check_trigger_KeywordAsIs(ls, trigger_keyword) == CheckTriggerFrom(ls, trigger_keyword, 1)

\* check_trigger(lines) under the configured trigger_keyword
check_trigger(ls, trigger_keyword) == CheckTriggerFrom(ls, Lower(trigger_keyword), 1)

(***************************************************************************)
(* The capture store: folders and artifacts under save_dir                 *)
(***************************************************************************)

\* file extensions and configured formats
Ext_png == <<"p", "n", "g">>

Ext_jpg == <<"j", "p", "g">>

Ext_jpeg == <<"j", "p", "e", "g">>

\* pathlib's "/" operator on a relative segment: the segment is cut at every
\* "/" and empty and "." parts are dropped (POSIX flavour)
RECURSIVE SplitFrom(_, _, _)
SplitFrom(segment, i, part) ==
    LET done == IF part = <<>> \/ part = <<".">> THEN <<>> ELSE <<part>>
    IN  IF i > Len(segment) THEN done
        ELSE IF segment[i] = "/" THEN done \o SplitFrom(segment, i + 1, <<>>)
        ELSE SplitFrom(segment, i + 1, Append(part, segment[i]))

SplitPath(segment) == SplitFrom(segment, 1, <<>>)

\* save_dir / f"ID_{product_id}" / label_date, as the path's parts below save_dir
DateFolder(info) ==
    SplitPath(<<"I", "D", "_">> \o info.product_id) \o SplitPath(info.label_date)

\* the parent folders that mkdir(parents=True, exist_ok=True) makes sure exist
FoldersOf(date_folder) == { SubSeq(date_folder, 1, k) : k \in 1..Len(date_folder) }

\* re.sub(r'[<>:"/\\|?*]', '_', filename)
IllegalChars == {"<", ">", ":", "\"", "/", "\\", "|", "?", "*"}

Sanitize(filename) ==
    [j \in 1..Len(filename) |-> IF filename[j] \in IllegalChars THEN "_" ELSE filename[j]]

\* mutant of is_duplicate: only the .png artifact is looked for
is_duplicate_PngOnly(st, info) ==
    DateFolder(info) \o SplitPath(info.serial_number \o <<".">> \o Ext_png) \in DOMAIN st

\* is_duplicate(info) against the artifacts of the store st (a function from
\* paths to the image saved there)
is_duplicate(st, info) ==
    LET date_folder == DateFolder(info)
        jpg_path    == date_folder \o SplitPath(info.serial_number \o <<".">> \o Ext_jpg)
        png_path    == date_folder \o SplitPath(info.serial_number \o <<".">> \o Ext_png)
    IN  jpg_path \in DOMAIN st \/ png_path \in DOMAIN st

\* the path save_screenshot writes to and returns
SavePath(cfg, info) ==
    LET img_format == Lower(cfg.format)
        filename   == Sanitize(info.serial_number \o <<".">> \o img_format)
    IN  DateFolder(info) \o SplitPath(filename)

(***************************************************************************)
(* State                                                                   *)
(***************************************************************************)

Str_fafa == <<"f", "a", "f", "a">>

Str_mtk == <<"m", "t", "k">>

Str_yeye == <<"y", "e", "y", "e">>

Str_sp == <<" ">>

Str_ID41 == <<"I", "D", ":", " ", "4", "1">>

\* "\n".join(lines)
RECURSIVE JoinNewline(_)
JoinNewline(ls) ==
    IF ls = <<>> THEN <<>>
    ELSE IF Len(ls) = 1 THEN ls[1]
    ELSE ls[1] \o <<"\n">> \o JoinNewline(Tail(ls))

\* What the monitored screen region can show, as the lines the recognizer
\* reads from it: nothing; a label without the trigger keyword; the trigger
\* keyword alone; one label; two labels; a label without serial; a label
\* without ID.
Frames ==
    << <<>>,
       << Str_mtk \o Str_sp \o <<"7">>, Str_ID41 >>,
       << Str_fafa >>,
       << Str_fafa \o Str_sp \o Str_mtk \o Str_sp \o <<"7">>, Str_ID41 >>,
       << Str_fafa,
          <<"I", "D", ":", "4", "1", " ", "I", "D", ":", "4", "2">>,
          Str_mtk \o Str_sp \o <<"7">>,
          Str_yeye \o Str_sp \o <<"1", "2">> >>,
       << Str_fafa \o Str_sp \o Str_ID41 >>,
       << Str_fafa \o Str_sp \o Str_mtk \o Str_sp \o <<"7">> >> >>

\* bounds of the model
MaxCycles == 2

MaxClock == 2

\* storage.format values of config.yaml (the GUI offers png and jpg; every
\* value other than png takes the JPEG branch of save_screenshot)
Formats == {Ext_png, Ext_jpg, Ext_jpeg}

VARIABLES
    config,          \* self.config: format, trigger_keyword; classifier: self.classifier is set
    store,           \* artifacts under save_dir: path -> image written there
    dirs,            \* folders under save_dir
    clock,           \* wall clock
    pc,              \* position of the process in run / run_once
    image,           \* run_once: image
    text,            \* run_once: text
    lines,           \* run_once: lines
    triggered,       \* run_once: what check_trigger returned in this cycle
    products,        \* run_once: products
    idx,             \* run_once: position of the loop "for info in products" (1-based)
    dup_results,     \* what is_duplicate returned for products[1..], in call order
    saved_products,  \* run_once: saved_products
    results,         \* run: results of this cycle's run_once (<<>> until it returns)
    exc,             \* the step whose exception reached run's handler in this cycle
    failed,          \* number of cycles that ended in run's except handler
    interrupted,     \* KeyboardInterrupt was delivered
    count,           \* run: count
    saved_count,     \* run: saved_count
    saved_ids,       \* run: saved_ids
    written,         \* number of artifacts written by imwrite during this run
    gui,             \* the GUI window: monitoring, detect_count, saved_count
    threads,         \* the monitor threads the GUI started, each with its run_once locals
    write_log        \* the artifacts written by monitor threads, in the order written

vars ==
    << config, store, dirs, clock, pc, image, text, lines, triggered, products,
       idx, dup_results, saved_products, results, exc, failed, interrupted,
       count, saved_count, saved_ids, written, gui, threads, write_log >>

gui_vars == << gui, threads, write_log >>

\* the window after __init__ (gui.py, lines 169 and 356-357): not monitoring
NoGui == [monitoring |-> FALSE, detect_count |-> 0, saved_count |-> 0]

cycle_locals == << image, text, lines, triggered, products, idx, dup_results, saved_products >>

run_stats == << count, saved_count, saved_ids >>

\* the record {41, 11-17, 7} of an earlier run
EarlierRecord == ProductInfo(<<"4", "1">>, <<"7">>, FormatDate(0), <<>>, FormatTimestamp(0))

\* save_dir when the monitor is constructed: empty, or holding the artifact
\* of EarlierRecord that a run on the same day under format f left there
StoreWith(f) == [p \in {SavePath([format |-> f], EarlierRecord)} |-> 1]

InitialStores == { [p \in {} |-> 0] } \cup { StoreWith(f) : f \in {Ext_jpg} }

DirsOf(st) == UNION { FoldersOf(SubSeq(p, 1, Len(p) - 1)) : p \in DOMAIN st }

Init ==
    /\ config \in [format : Formats, trigger_keyword : {Str_fafa}, classifier : BOOLEAN]
    /\ store \in InitialStores
    /\ dirs = DirsOf(store)
    /\ clock = 0
    /\ pc = "loop"
    /\ image = 0
    /\ text = <<>>
    /\ lines = <<>>
    /\ triggered = FALSE
    /\ products = <<>>
    /\ idx = 0
    /\ dup_results = <<>>
    /\ saved_products = <<>>
    /\ results = <<>>
    /\ exc = "none"
    /\ failed = 0
    /\ interrupted = FALSE
    /\ count = 0
    /\ saved_count = 0
    /\ saved_ids = [p \in {} |-> 0]
    /\ written = 0
    /\ gui = NoGui
    /\ threads = <<>>
    /\ write_log = <<>>

(***************************************************************************)
(* run and run_once                                                        *)
(***************************************************************************)

\* mutant of Raise: the exception is not caught in the loop and ends it
Raise_Uncaught(step) ==
    /\ exc' = step
    /\ failed' = failed + 1
    /\ pc' = "stopped"

\* run, lines 649-650: an exception of the step reaches run's handler, which
\* reports it; control goes on to the status report and the sleep
Raise(step) ==
    /\ exc' = step
    /\ failed' = failed + 1
    /\ pc' = "sleep"

\* run_once returns saved_products (or [] before the loop) to run
ReturnToRun == pc' = "return"

\* mutant of NextRecord: the loop ends after the record it has just handled
NextRecord_EndsLoop ==
    /\ idx' = idx + 1
    /\ pc' = "return"

\* the loop "for info in products" moves on to the next record or ends
NextRecord ==
    /\ idx' = idx + 1
    /\ pc' = IF idx < Len(products) THEN "dup" ELSE "return"

\* run, lines 637-641: count += 1 and the call of run_once
StartCycle ==
    /\ pc = "loop"
    /\ count < MaxCycles
    /\ count' = count + 1
    /\ pc' = "capture"
    /\ image' = 0
    /\ text' = <<>>
    /\ lines' = <<>>
    /\ triggered' = FALSE
    /\ products' = <<>>
    /\ idx' = 0
    /\ dup_results' = <<>>
    /\ saved_products' = <<>>
    /\ results' = <<>>
    /\ exc' = "none"
    /\ UNCHANGED << config, store, dirs, clock, failed, interrupted,
                    saved_count, saved_ids, written,
                    gui_vars >>

\* run_once, line 487: capture_region returns the image of what the screen
\* shows, or raises
CaptureRegion ==
    /\ pc = "capture"
    /\ \/ /\ \E f \in 1..Len(Frames) : image' = f
          /\ pc' = "ocr"
          /\ UNCHANGED << exc, failed >>
       \/ /\ Raise("capture")
          /\ UNCHANGED image
    /\ UNCHANGED << config, store, dirs, clock, text, lines, triggered, products,
                    idx, dup_results, saved_products, results, interrupted,
                    run_stats, written,
                    gui_vars >>

\* run_once, line 490: do_ocr returns the text and the lines, or raises
DoOcr ==
    /\ pc = "ocr"
    /\ \/ /\ lines' = Frames[image]
          /\ text' = JoinNewline(Frames[image])
          /\ pc' = "trigger"
          /\ UNCHANGED << exc, failed >>
       \/ /\ Raise("ocr")
          /\ UNCHANGED << text, lines >>
    /\ UNCHANGED << config, store, dirs, clock, image, triggered, products, idx,
                    dup_results, saved_products, results, interrupted,
                    run_stats, written,
                    gui_vars >>

\* mutant of CheckTrigger: the extraction runs whether or not the trigger
\* keyword was found
CheckTrigger_NoTriggerTest ==
    /\ pc = "trigger"
    /\ IF lines = <<>>
       THEN /\ ReturnToRun
            /\ UNCHANGED triggered
       ELSE /\ triggered' = check_trigger(lines, config.trigger_keyword)
            /\ pc' = "extract"
    /\ UNCHANGED << config, store, dirs, clock, image, text, lines, products, idx,
                    dup_results, saved_products, results, exc, failed,
                    interrupted, run_stats, written, gui_vars >>

\* run_once, lines 492-497: no lines, or no trigger: return []; the
\* trigger check can raise
CheckTrigger ==
    /\ pc = "trigger"
    /\ \/ /\ IF lines = <<>>
             THEN /\ ReturnToRun
                  /\ UNCHANGED triggered
             ELSE /\ triggered' = check_trigger(lines, config.trigger_keyword)
                  /\ pc' = IF triggered' THEN "extract" ELSE "return"
          /\ UNCHANGED << exc, failed >>
       \/ /\ lines # <<>>
          /\ Raise("trigger")
          /\ UNCHANGED triggered
    /\ UNCHANGED << config, store, dirs, clock, image, text, lines, products, idx,
                    dup_results, saved_products, results, interrupted,
                    run_stats, written,
                    gui_vars >>

\* the readings a later datetime.now() can give after reading t
LaterReadings(t) == {t2 \in {t, t + 1} : t2 <= MaxClock}

\* run_once, lines 509-524: extract_all_products; no record: return []; the
\* extraction can raise
ExtractAllProducts ==
    /\ pc = "extract"
    /\ \/ /\ \E t2 \in LaterReadings(clock) :
                /\ products' = extract_all_products(text, lines, clock, t2)
                /\ clock' = t2
          /\ IF products' = <<>>
             THEN ReturnToRun /\ UNCHANGED idx
             ELSE idx' = 1 /\ pc' = "dup"
          /\ UNCHANGED << exc, failed >>
       \/ /\ Raise("extract")
          /\ UNCHANGED << products, clock, idx >>
    /\ UNCHANGED << config, store, dirs, image, text, lines, triggered,
                    dup_results, saved_products, results, interrupted,
                    run_stats, written,
                    gui_vars >>

\* mutant of IsDuplicate: a duplicate is not skipped
IsDuplicate_NoSkip ==
    /\ pc = "dup"
    /\ dup_results' = Append(dup_results, is_duplicate(store, products[idx]))
    /\ pc' = "classify"
    /\ UNCHANGED << config, store, dirs, clock, image, text, lines, triggered,
                    products, idx, saved_products, results, exc, failed,
                    interrupted, run_stats, written,
                    gui_vars >>

\* run_once, lines 541-547: the duplicate check of products[idx]; a
\* duplicate is skipped
IsDuplicate ==
    /\ pc = "dup"
    /\ \/ LET dup == is_duplicate(store, products[idx])
          IN  /\ dup_results' = Append(dup_results, dup)
              /\ IF dup THEN NextRecord ELSE pc' = "classify" /\ UNCHANGED idx
              /\ UNCHANGED << exc, failed >>
       \/ /\ Raise("dedup")
          /\ UNCHANGED << dup_results, idx >>
    /\ UNCHANGED << config, store, dirs, clock, image, text, lines, triggered,
                    products, saved_products, results, interrupted, run_stats,
                    written,
                    gui_vars >>

\* what classifier.predict can report as category
StyleCategories == {Unknown, <<"d", "r", "e", "s", "s">>}

\* mutant of Classify: an exception of predict is not caught on the spot and
\* ends the cycle
Classify_PredictRaises ==
    /\ pc = "classify"
    /\ \/ /\ ~config.classifier
          /\ pc' = "save"
          /\ UNCHANGED << products, exc, failed >>
       \/ /\ config.classifier
          /\ \E category \in StyleCategories :
                products' = [products EXCEPT ![idx].style_category = category]
          /\ pc' = "save"
          /\ UNCHANGED << exc, failed >>
       \/ /\ config.classifier
          /\ Raise("classify")
          /\ UNCHANGED products
    /\ UNCHANGED << config, store, dirs, clock, image, text, lines, triggered, idx,
                    dup_results, saved_products, results, interrupted, run_stats,
                    written, gui_vars >>

\* run_once, lines 549-558: the optional style classifier; its exceptions
\* are caught on the spot
Classify ==
    /\ pc = "classify"
    /\ \/ /\ ~config.classifier
          /\ UNCHANGED products
       \/ /\ config.classifier
          /\ \E category \in StyleCategories :
                products' = [products EXCEPT ![idx].style_category = category]
       \/ /\ config.classifier
          /\ UNCHANGED products
    /\ pc' = "save"
    /\ UNCHANGED << config, store, dirs, clock, image, text, lines, triggered, idx,
                    dup_results, saved_products, results, exc, failed,
                    interrupted, run_stats, written,
                    gui_vars >>

\* mutant of RecordSaved: the returned path is not kept in the record
RecordSaved_NoPath(filepath) ==
    /\ saved_products' = Append(saved_products, products[idx])
    /\ NextRecord
    /\ UNCHANGED << products, exc, failed >>

\* run_once, lines 561-564 after save_screenshot returned filepath
RecordSaved(filepath) ==
    /\ products' = [products EXCEPT ![idx].filepath = filepath]
    /\ saved_products' = Append(saved_products, products'[idx])
    /\ NextRecord
    /\ UNCHANGED << exc, failed >>

\* run_once, line 561: save_screenshot(image, info).  mkdir can raise; the
\* encoder (cv2.imwrite) can write the file, raise, or report failure by
\* returning False, which save_screenshot does not look at
SaveScreenshot ==
    /\ pc = "save"
    /\ LET info        == products[idx]
           date_folder == DateFolder(info)
           filepath    == SavePath(config, info)
       IN  \/ /\ Raise("save")
              /\ UNCHANGED << store, dirs, written, products, saved_products, idx >>
           \/ /\ dirs' = dirs \cup FoldersOf(date_folder)
              /\ Raise("save")
              /\ UNCHANGED << store, written, products, saved_products, idx >>
           \/ /\ dirs' = dirs \cup FoldersOf(date_folder)
              /\ store' = [p \in DOMAIN store \cup {filepath} |->
                              IF p = filepath THEN image ELSE store[p]]
              /\ written' = written + 1
              /\ RecordSaved(filepath)
           \/ /\ dirs' = dirs \cup FoldersOf(date_folder)
              /\ UNCHANGED << store, written >>
              /\ RecordSaved(filepath)
    /\ UNCHANGED << config, clock, image, text, lines, triggered, dup_results,
                    results, interrupted, run_stats,
                    gui_vars >>

RECURSIVE CountIds(_, _)
\* run, lines 645-647: saved_ids[id_val] = saved_ids.get(id_val, 0) + 1
CountIds(ids, infos) ==
    IF infos = <<>> THEN ids
    ELSE LET id_val == Head(infos).product_id
             old    == IF id_val \in DOMAIN ids THEN ids[id_val] ELSE 0
         IN  CountIds([k \in DOMAIN ids \cup {id_val} |->
                          IF k = id_val THEN old + 1 ELSE ids[k]],
                      Tail(infos))

\* run, lines 641-647: run_once returned; the statistics are updated
CycleReturns ==
    /\ pc = "return"
    /\ results' = saved_products
    /\ saved_count' = saved_count + Len(saved_products)
    /\ saved_ids' = CountIds(saved_ids, saved_products)
    /\ pc' = "sleep"
    /\ UNCHANGED << config, store, dirs, clock, cycle_locals, exc, failed,
                    interrupted, count, written,
                    gui_vars >>

\* run, lines 653-656: time.sleep(interval), during which the clock can advance
Sleep ==
    /\ pc = "sleep"
    /\ clock' \in LaterReadings(clock)
    /\ pc' = "loop"
    /\ UNCHANGED << config, store, dirs, cycle_locals, results, exc, failed,
                    interrupted, run_stats, written,
                    gui_vars >>

\* run, lines 658-667: Ctrl+C ends the loop
KeyboardInterrupt ==
    /\ pc # "stopped"
    /\ interrupted' = TRUE
    /\ pc' = "stopped"
    /\ UNCHANGED << config, store, dirs, clock, cycle_locals, results, exc,
                    failed, run_stats, written,
                    gui_vars >>

Next ==
    \/ StartCycle
    \/ CaptureRegion
    \/ DoOcr
    \/ CheckTrigger
    \/ ExtractAllProducts
    \/ IsDuplicate
    \/ Classify
    \/ SaveScreenshot
    \/ CycleReturns
    \/ Sleep
    \/ KeyboardInterrupt

Spec == Init /\ [][Next]_vars

\* a step of the process from a position inside run_once
CycleStep ==
    /\ pc \in {"capture", "ocr", "trigger", "extract", "dup", "classify", "save", "return"}
    /\ \E position \in {"ocr", "trigger", "extract", "dup", "classify", "save", "return",
                        "sleep", "stopped"} :
          \E i \in 0..(Len(products) + 1) :
             /\ pc' = position
             /\ idx' = i

\* run is one sequential process: inside run_once it goes on to its next step
FairSpec == Spec /\ WF_<<pc, idx>>(CycleStep)

(***************************************************************************)
(* check_trigger and extract_all_products called on bounded inputs         *)
(***************************************************************************)

\* bound: number of lines of a recognized frame
MaxLines == 2

\* lines the recognizer can return
LineCorpus ==
    { Str_mtk \o Str_sp \o <<"7">>,                                 \* mtk 7
      Str_ID41,                                                      \* ID: 41
      Str_mtk,                                                       \* mtk
      Str_yeye \o Str_sp \o <<"1", "2">>,                            \* yeye 12
      <<"I", "D", ":", "4", "2">>,                                   \* ID:42
      <<"i", "d", " ", "5">>,                                        \* id 5
      <<"I", "D", FWColon, "4", "3">>,                               \* ID：43
      Str_mtk \o Str_sp \o <<"9", "9", "9", "9", "9">>,              \* mtk 99999
      Str_mtk \o Str_sp \o <<"0">>,                                  \* mtk 0
      <<"7", " ", "M", "T", "K">>,                                   \* 7 MTK
      Str_mtk \o Str_sp \o Str_ID41,                                 \* mtk ID: 41
      Str_fafa \o Str_sp \o <<"2", "5", "3", "2">>,                  \* fafa 2532
      <<"F", "A", "F", "A">>,                                        \* FAFA
      Str_mtk \o Str_sp \o <<"0", "0", "7">>,                        \* mtk 007
      <<"x">>,                                                       \* x
      Str_yeye \o <<"3">> \o Str_sp \o Str_mtk,                      \* yeye3 mtk
      <<"4", "1">>,                                                  \* 41
      <<"5">> \o Str_sp \o Str_mtk \o Str_sp \o <<"7">>,                 \* 5 mtk 7
      <<"3", " ", "5", " ">> \o Str_mtk,                             \* 3 5 mtk
      Str_mtk \o Str_sp \o <<"7">> \o Str_sp \o Str_yeye \o Str_sp \o <<"1", "2">> }  \* mtk 7 yeye 12

\* the frames of at most MaxLines lines
BoundedFrames == UNION { [1..n -> LineCorpus] : n \in 0..MaxLines }

\* the label of the docstring of extract_all_products: "fafa 2532", a name
\* in kana, "ID: 41 (yen)300"
DocLabel ==
    << Str_fafa \o Str_sp \o <<"2", "5", "3", "2">>,
       << Kana, Kana, Kana, Kana, Kana, Kana >>,
       Str_ID41 \o Str_sp \o << Yen, "3", "0", "0" >> >>

\* monitor.trigger_keyword values of config.yaml
Keywords == { Str_fafa, <<"F", "a", "F", "a">>, Str_mtk, <<>> }

InitPure ==
    /\ config \in [format : {Ext_png}, trigger_keyword : Keywords, classifier : {FALSE}]
    /\ lines \in BoundedFrames \cup {DocLabel}
    /\ text = JoinNewline(lines)
    /\ store = [p \in {} |-> 0]
    /\ dirs = {}
    /\ clock = 0
    /\ pc = "call"
    /\ image = 0
    /\ triggered = FALSE
    /\ products = <<>>
    /\ idx = 0
    /\ dup_results = <<>>
    /\ saved_products = <<>>
    /\ results = <<>>
    /\ exc = "none"
    /\ failed = 0
    /\ interrupted = FALSE
    /\ count = 0
    /\ saved_count = 0
    /\ saved_ids = [p \in {} |-> 0]
    /\ written = 0
    /\ gui = NoGui
    /\ threads = <<>>
    /\ write_log = <<>>

\* a call of check_trigger(lines)
CallCheckTrigger ==
    /\ pc = "call"
    /\ triggered' = check_trigger(lines, config.trigger_keyword)
    /\ pc' = "trigger_returned"
    /\ UNCHANGED << config, store, dirs, clock, image, text, lines, products, idx,
                    dup_results, saved_products, results, exc, failed,
                    interrupted, run_stats, written,
                    gui_vars >>

\* a call of extract_all_products(text, lines)
CallExtract ==
    /\ pc = "call"
    /\ \E t2 \in LaterReadings(clock) :
          /\ products' = extract_all_products(text, lines, clock, t2)
          /\ clock' = t2
    /\ pc' = "extract_returned"
    /\ UNCHANGED << config, store, dirs, image, text, lines, triggered, idx,
                    dup_results, saved_products, results, exc, failed,
                    interrupted, run_stats, written,
                    gui_vars >>

NextPure == CallCheckTrigger \/ CallExtract

SpecPure == InitPure /\ [][NextPure]_vars

(***************************************************************************)
(* is_duplicate and save_screenshot called on one record                   *)
(***************************************************************************)

\* bound: number of calls of each method in a row
MaxCalls == 2

\* values of product_id and serial_number a record can be given, among them
\* values holding characters of the sanitizer's class
GivenIds == { <<"4", "1">>, <<"4", "/", "1">>, Unknown }

GivenSerials == { <<"7">>, <<"7", "/", "8">>, <<"7", "*", "8">>, Unknown }

GivenRecords ==
    { ProductInfo(product_id, serial_number, FormatDate(0), <<>>, FormatTimestamp(0)) :
        product_id \in GivenIds, serial_number \in GivenSerials }

StorePositions == {"call", "is_duplicate_returned", "save_returned", "save_raised"}

InitStore ==
    /\ config \in [format : Formats, trigger_keyword : {Str_fafa}, classifier : {FALSE}]
    /\ store \in InitialStores
    /\ dirs = DirsOf(store)
    /\ clock = 0
    /\ pc = "call"
    /\ image = 2
    /\ text = <<>>
    /\ lines = <<>>
    /\ triggered = FALSE
    /\ \E info \in GivenRecords : products = <<info>>
    /\ idx = 1
    /\ dup_results = <<>>
    /\ saved_products = <<>>
    /\ results = <<>>
    /\ exc = "none"
    /\ failed = 0
    /\ interrupted = FALSE
    /\ count = 0
    /\ saved_count = 0
    /\ saved_ids = [p \in {} |-> 0]
    /\ written = 0
    /\ gui = NoGui
    /\ threads = <<>>
    /\ write_log = <<>>

\* mutant of CallIsDuplicate: the check makes sure the date folder exists
CallIsDuplicate_Mkdir ==
    /\ pc \in StorePositions
    /\ Len(dup_results) < MaxCalls
    /\ dirs' = dirs \cup FoldersOf(DateFolder(products[idx]))
    /\ dup_results' = Append(dup_results, is_duplicate(store, products[idx]))
    /\ pc' = "is_duplicate_returned"
    /\ UNCHANGED << config, store, clock, image, text, lines, triggered,
                    products, idx, saved_products, results, exc, failed,
                    interrupted, run_stats, written, gui_vars >>

\* a call of is_duplicate(info); dup_results holds the answers given since
\* the last call of save_screenshot
CallIsDuplicate ==
    /\ pc \in StorePositions
    /\ Len(dup_results) < MaxCalls
    /\ dup_results' = Append(dup_results, is_duplicate(store, products[idx]))
    /\ pc' = "is_duplicate_returned"
    /\ UNCHANGED << config, store, dirs, clock, image, text, lines, triggered,
                    products, idx, saved_products, results, exc, failed,
                    interrupted, run_stats, written, gui_vars >>

\* a call of save_screenshot(image, info); results holds the paths returned.
\* mkdir can raise; the encoder can write the file, raise, or return False
CallSaveScreenshot ==
    /\ pc \in StorePositions
    /\ Len(results) < MaxCalls
    /\ LET info        == products[idx]
           date_folder == DateFolder(info)
           filepath    == SavePath(config, info)
       IN  \/ /\ exc' = "save"
              /\ pc' = "save_raised"
              /\ UNCHANGED << store, dirs, written, results >>
           \/ /\ dirs' = dirs \cup FoldersOf(date_folder)
              /\ exc' = "save"
              /\ pc' = "save_raised"
              /\ UNCHANGED << store, written, results >>
           \/ /\ dirs' = dirs \cup FoldersOf(date_folder)
              /\ store' = [p \in DOMAIN store \cup {filepath} |->
                              IF p = filepath THEN image ELSE store[p]]
              /\ written' = written + 1
              /\ results' = Append(results, filepath)
              /\ pc' = "save_returned"
              /\ UNCHANGED exc
           \/ /\ dirs' = dirs \cup FoldersOf(date_folder)
              /\ results' = Append(results, filepath)
              /\ pc' = "save_returned"
              /\ UNCHANGED << store, written, exc >>
    /\ dup_results' = <<>>
    /\ UNCHANGED << config, clock, image, text, lines, triggered, products, idx,
                    saved_products, failed, interrupted, run_stats, gui_vars >>

NextStore == CallIsDuplicate \/ CallSaveScreenshot

SpecStore == InitStore /\ [][NextStore]_vars

(***************************************************************************)
(* The GUI: start_monitoring, stop_monitoring and the monitor threads      *)
(***************************************************************************)

\* bounds: monitor threads started, and cycles begun by all of them together
MaxThreads == 2

MaxGuiCycles == 3

\* what the screen shows while the GUI runs: nothing, or one label
GuiFrames == {1, 4}

\* everything but the save root and the GUI's own state
cli_vars ==
    << config, clock, pc, image, text, lines, triggered, products, idx,
       dup_results, saved_products, results, exc, failed, interrupted,
       count, saved_count, saved_ids, written >>

\* a thread created by threading.Thread(target=self.run_monitor)
NewThread ==
    [pc |-> "start", cycles |-> 0, image |-> <<>>, products |-> <<>>, idx |-> 0,
     dup_results |-> <<>>, saved_products |-> <<>>]

\* the number of cycles begun by the threads 1..k
RECURSIVE CyclesBegun(_)
CyclesBegun(k) == IF k = 0 THEN 0 ELSE threads[k].cycles + CyclesBegun(k - 1)

\* the threads that are inside run_once
InRunOnce == { t \in 1..Len(threads) : threads[t].pc \in {"run_once", "dup", "save"} }

InitGui ==
    /\ config = [format |-> Ext_png, trigger_keyword |-> Str_fafa, classifier |-> FALSE]
    /\ store = [p \in {} |-> 0]
    /\ dirs = {}
    /\ clock = 0
    /\ pc = "mainloop"
    /\ image = 0
    /\ text = <<>>
    /\ lines = <<>>
    /\ triggered = FALSE
    /\ products = <<>>
    /\ idx = 0
    /\ dup_results = <<>>
    /\ saved_products = <<>>
    /\ results = <<>>
    /\ exc = "none"
    /\ failed = 0
    /\ interrupted = FALSE
    /\ count = 0
    /\ saved_count = 0
    /\ saved_ids = [p \in {} |-> 0]
    /\ written = 0
    /\ gui = NoGui
    /\ threads = <<>>
    /\ write_log = <<>>

\* gui.py, lines 537-561: start_monitoring (a failing save_config_to_dict
\* returns without a change)
StartMonitoring ==
    /\ ~gui.monitoring
    /\ Len(threads) < MaxThreads
    /\ gui' = [monitoring |-> TRUE, detect_count |-> 0, saved_count |-> 0]
    /\ threads' = Append(threads, NewThread)
    /\ UNCHANGED << store, dirs, write_log, cli_vars >>

\* gui.py, lines 563-578: stop_monitoring; the monitor thread is not joined
StopMonitoring ==
    /\ gui.monitoring
    /\ gui' = [gui EXCEPT !.monitoring = FALSE]
    /\ UNCHANGED << store, dirs, threads, write_log, cli_vars >>

\* gui.py, lines 582-584 and 607-609: the thread builds its own LiveMonitor;
\* an exception here reaches the outer handler, which clears monitoring
ThreadConstruct(t) ==
    /\ threads[t].pc = "start"
    /\ \/ /\ threads' = [threads EXCEPT ![t].pc = "while"]
          /\ UNCHANGED gui
       \/ /\ threads' = [threads EXCEPT ![t].pc = "exited"]
          /\ gui' = [gui EXCEPT !.monitoring = FALSE]
    /\ UNCHANGED << store, dirs, write_log, cli_vars >>

\* gui.py, lines 586-587: while self.monitoring: self.detect_count += 1
ThreadWhile(t) ==
    /\ threads[t].pc = "while"
    /\ IF gui.monitoring
       THEN /\ CyclesBegun(Len(threads)) < MaxGuiCycles
            /\ gui' = [gui EXCEPT !.detect_count = @ + 1]
            /\ threads' = [threads EXCEPT ![t].pc = "run_once", ![t].cycles = @ + 1]
       ELSE /\ threads' = [threads EXCEPT ![t].pc = "exited"]
            /\ UNCHANGED gui
    /\ UNCHANGED << store, dirs, write_log, cli_vars >>

\* the loop "for info in products" of thread t moves on
ThreadNextRecord(t, thread) ==
    [thread EXCEPT !.idx = @ + 1,
                   !.pc = IF thread.idx < Len(thread.products) THEN "dup" ELSE "return"]

\* app.py, lines 487-524 in thread t: capture, OCR, trigger check and
\* extraction, which touch nothing outside the thread; any of them can raise
ThreadRunOnce(t) ==
    /\ threads[t].pc = "run_once"
    /\ \/ \E f \in GuiFrames :
            LET ls == Frames[f]
                ps == IF ls = <<>> \/ ~check_trigger(ls, config.trigger_keyword)
                      THEN <<>>
                      ELSE extract_all_products(JoinNewline(ls), ls, clock, clock)
            IN  threads' = [threads EXCEPT ![t] =
                    [pc |-> IF ps = <<>> THEN "return" ELSE "dup",
                     cycles |-> threads[t].cycles,
                     image |-> <<t, threads[t].cycles>>,
                     products |-> ps,
                     idx |-> IF ps = <<>> THEN 0 ELSE 1,
                     dup_results |-> <<>>,
                     saved_products |-> <<>>]]
       \/ threads' = [threads EXCEPT ![t].pc = "sleep"]
    /\ UNCHANGED << store, dirs, gui, write_log, cli_vars >>

\* app.py, lines 541-547 in thread t
ThreadIsDuplicate(t) ==
    /\ threads[t].pc = "dup"
    /\ LET thread == threads[t]
           dup    == is_duplicate(store, thread.products[thread.idx])
           asked  == [thread EXCEPT !.dup_results = Append(@, dup)]
       IN  threads' = [threads EXCEPT ![t] =
               IF dup THEN ThreadNextRecord(t, asked) ELSE [asked EXCEPT !.pc = "save"]]
    /\ UNCHANGED << store, dirs, gui, write_log, cli_vars >>

\* mutant of ThreadSaveScreenshot: a file that exists is not replaced
ThreadSaveScreenshot_KeepFirst(t) ==
    /\ threads[t].pc = "save"
    /\ LET thread   == threads[t]
           info     == thread.products[thread.idx]
           filepath == SavePath(config, info)
           saved    == [info EXCEPT !.filepath = filepath]
       IN  /\ dirs' = dirs \cup FoldersOf(DateFolder(info))
           /\ store' = [p \in DOMAIN store \cup {filepath} |->
                           IF p \in DOMAIN store THEN store[p] ELSE thread.image]
           /\ write_log' = Append(write_log,
                               [path |-> filepath, thread |-> t, image |-> thread.image])
           /\ threads' = [threads EXCEPT ![t] =
                   ThreadNextRecord(t, [thread EXCEPT
                       !.products[thread.idx] = saved,
                       !.saved_products = Append(@, saved)])]
    /\ UNCHANGED << gui, cli_vars >>

\* app.py, lines 561-563 in thread t: save_screenshot writes the artifact,
\* replacing a file of the same name, or raises
ThreadSaveScreenshot(t) ==
    /\ threads[t].pc = "save"
    /\ LET thread   == threads[t]
           info     == thread.products[thread.idx]
           filepath == SavePath(config, info)
           saved    == [info EXCEPT !.filepath = filepath]
       IN  \/ /\ dirs' = dirs \cup FoldersOf(DateFolder(info))
              /\ store' = [p \in DOMAIN store \cup {filepath} |->
                              IF p = filepath THEN thread.image ELSE store[p]]
              /\ write_log' = Append(write_log,
                                  [path |-> filepath, thread |-> t, image |-> thread.image])
              /\ threads' = [threads EXCEPT ![t] =
                      ThreadNextRecord(t, [thread EXCEPT
                          !.products[thread.idx] = saved,
                          !.saved_products = Append(@, saved)])]
           \/ /\ threads' = [threads EXCEPT ![t].pc = "sleep"]
              /\ UNCHANGED << store, dirs, write_log >>
    /\ UNCHANGED << gui, cli_vars >>

\* gui.py, lines 590-592: run_once returned its results to the thread
ThreadReturns(t) ==
    /\ threads[t].pc = "return"
    /\ gui' = [gui EXCEPT !.saved_count = @ + Len(threads[t].saved_products)]
    /\ threads' = [threads EXCEPT ![t].pc = "sleep"]
    /\ UNCHANGED << store, dirs, write_log, cli_vars >>

\* gui.py, lines 604-605: time.sleep(interval)
ThreadSleep(t) ==
    /\ threads[t].pc = "sleep"
    /\ threads' = [threads EXCEPT ![t].pc = "while"]
    /\ UNCHANGED << store, dirs, gui, write_log, cli_vars >>

NextGui ==
    \/ StartMonitoring
    \/ StopMonitoring
    \/ \E t \in 1..Len(threads) : ThreadConstruct(t)
    \/ \E t \in 1..Len(threads) : ThreadWhile(t)
    \/ \E t \in 1..Len(threads) : ThreadRunOnce(t)
    \/ \E t \in 1..Len(threads) : ThreadIsDuplicate(t)
    \/ \E t \in 1..Len(threads) : ThreadSaveScreenshot(t)
    \/ \E t \in 1..Len(threads) : ThreadReturns(t)
    \/ \E t \in 1..Len(threads) : ThreadSleep(t)

SpecGui == InitGui /\ [][NextGui]_vars

(***************************************************************************)
(* Properties                                                              *)
(***************************************************************************)

\* C1 (as claimed): round trip of save and dedup.  Every record for which
\* save_screenshot has returned, its artifact written, is a duplicate from
\* then on, under every configured storage format.
C1_SaveThenDuplicate ==
    \A j \in 1..Len(saved_products) :
        saved_products[j].filepath \in DOMAIN store =>
            is_duplicate(store, saved_products[j])

\* C2 (as claimed): per-record failure isolation.  When the save of one
\* record of a cycle has failed, every record of the frame has still been
\* duplicate-checked, and the records saved in the cycle are reported to run.
C2_SaveFailureIsolated ==
    exc = "save" =>
        /\ Len(dup_results) = Len(products)
        /\ results = saved_products

\* C3: cycle-level failure isolation.  The loop is left only by the
\* operator's interruption; a failure of any step of a cycle leaves the
\* process at the end of the loop body (the sleep before the next cycle) or
\* at the loop head, never outside the loop, and the next cycle can start
\* from there.
C3_CycleFailureIsolated ==
    /\ pc = "stopped" => interrupted
    /\ (exc # "none" /\ ~interrupted) => pc \in {"sleep", "loop"}
    /\ (pc = "sleep" /\ exc # "none") => ENABLED Sleep
    /\ (pc = "loop" /\ count < MaxCycles) => ENABLED StartCycle

\* a cycle has started after a cycle that failed
C3_Witness == failed >= 1 /\ pc = "capture" /\ count >= 2 /\ ~interrupted

\* products[i] is one of the records of saved_products
SavedInCycle(i) ==
    \E j \in 1..Len(saved_products) :
        /\ saved_products[j].product_id = products[i].product_id
        /\ saved_products[j].serial_number = products[i].serial_number

\* C4: the state machine of a cycle.  save_screenshot is only called for a
\* record of the extraction result of a frame on which the trigger check
\* returned true, after is_duplicate returned false for that record; a
\* record for which is_duplicate returned true is not saved in the cycle;
\* and the store changes in no other step than the save.
C4_CycleOrder ==
    /\ [](/\ pc = "save" =>
                /\ triggered
                /\ idx \in 1..Len(products)
                /\ Len(dup_results) = idx
                /\ dup_results[idx] = FALSE
          /\ \A i \in 1..Len(products) :
                SavedInCycle(i) => (i <= Len(dup_results) /\ dup_results[i] = FALSE)
          /\ saved_products # <<>> => triggered)
    /\ [][store' # store => pc = "save"]_vars

\* in one cycle the first record was skipped as duplicate and the second saved
C4_Witness ==
    /\ Len(dup_results) = 2
    /\ dup_results[1] = TRUE
    /\ dup_results[2] = FALSE
    /\ Len(saved_products) = 1
    /\ pc = "return"

\* the line carries an ID pattern: ID: , ID： or ID, whitespace, digits
IdBearing(line) ==
    \E p \in 1..Len(line) :
        /\ IsIdPrefix(line, p)
        /\ \/ (p + 2 <= Len(line) /\ line[p + 2] \in {":", FWColon})
           \/ SpaceIdAt(line, p) # <<>>

\* the index of the line from which the serial of record i was read
SerialSource(i) == unique_candidates(lines)[i].src

\* C5 (as claimed): no serial of an emitted record was read from a line
\* that carries an ID pattern.
C5_NoSerialFromIdLine ==
    pc = "extract_returned" =>
        \A i \in 1..Len(products) :
            products[i].serial_number # Unknown => ~IdBearing(lines[SerialSource(i)])

C7_NoIdBranch ==
    LET serials == unique_serials(lines)
    IN  (pc = "extract_returned" /\ unique_ids(lines) = <<>>) =>
            /\ Len(products) = Len(serials)
            /\ \A i \in 1..Len(products) :
                  /\ products[i].product_id = Unknown
                  /\ products[i].serial_number = serials[i]

\* extraction returned two records without any ID
C7_Witness ==
    /\ pc = "extract_returned"
    /\ unique_ids(lines) = <<>>
    /\ Len(products) = 2
    /\ products[1].serial_number # products[2].serial_number

\* sub is a substring of s
IsSubstring(sub, s) ==
    \E a \in 1..(Len(s) + 1) : \E b \in (a - 1)..Len(s) : SubSeq(s, a, b) = sub

\* C8: check_trigger is true exactly when the lowercased keyword is a
\* substring of some lowercased line.
C8_TriggerIff ==
    pc = "trigger_returned" =>
        (triggered <=>
            \E i \in 1..Len(lines) :
                IsSubstring(Lower(config.trigger_keyword), Lower(lines[i])))

\* the trigger fired although the keyword as configured is in no line as read
C8_Witness ==
    /\ pc = "trigger_returned"
    /\ triggered
    /\ \A i \in 1..Len(lines) : ~IsSubstring(config.trigger_keyword, lines[i])

\* a serial that the range invariant admits
SerialOk(s) ==
    \/ s = Unknown
    \/ /\ Len(s) \in 1..4
       /\ \A j \in 1..Len(s) : s[j] \in Digits
       /\ IntValue(s) >= 1
       /\ IntValue(s) <= 9999

\* C9: every emitted record has serial_number "unknown" or 1 to 4 decimal
\* digits of value 1..9999.
C9_SerialRange ==
    pc = "extract_returned" =>
        \A i \in 1..Len(products) : SerialOk(products[i].serial_number)

\* extraction met a candidate of value 0 and still returned a record
C9_Witness ==
    /\ pc = "extract_returned"
    /\ \E j \in 1..Len(all_serials(lines)) : IntValue(all_serials(lines)[j]) = 0
    /\ products # <<>>
    /\ products[1].serial_number # Unknown

\* the store holds {serial_number}.jpg or {serial_number}.png in the folder
\* ID_{product_id}/{label_date}
HoldsArtifact(st, info) ==
    \E p \in DOMAIN st :
        /\ Len(p) = 3
        /\ p[1] = <<"I", "D", "_">> \o info.product_id
        /\ p[2] = info.label_date
        /\ \/ p[3] = info.serial_number \o <<".", "j", "p", "g">>
           \/ p[3] = info.serial_number \o <<".", "p", "n", "g">>

\* C10: the answer of every is_duplicate call is true exactly when the store
\* holds such an artifact, whatever the configured format and the image.
C10_DuplicateContract ==
    [][(pc = "dup" /\ Len(dup_results') = Len(dup_results) + 1) =>
          (dup_results'[Len(dup_results')] <=> HoldsArtifact(store, products[idx]))]_vars

\* is_duplicate answered true on a .jpg artifact of an earlier run while the
\* configured format is png
C10_Witness ==
    /\ config.format = Ext_png
    /\ written = 0
    /\ store = StoreWith(Ext_jpg)
    /\ dup_results # <<>>
    /\ dup_results[Len(dup_results)] = TRUE

\* C11: a record whose product_id or serial_number holds a character of the
\* sanitizer's class is saved directly inside ID_{id}/{date}: the path
\* save_screenshot returns has the three parts ID_{id}, {date} and
\* {serial}.{format}, each offending character replaced by "_", and no folder
\* lies deeper than the date folder
C11_SanitizedPath ==
    pc = "save_returned" =>
        LET info     == products[1]
            filepath == results[Len(results)]
        IN  /\ filepath = << Sanitize(<<"I", "D", "_">> \o info.product_id),
                             info.label_date,
                             Sanitize(info.serial_number) \o <<".">> \o Lower(config.format) >>
            /\ \A d \in dirs : Len(d) <= 2

\* C13: is_duplicate leaves the files and the folders of the store as they
\* are, and the answers it gives with no save_screenshot in between are all
\* the same
C13_DuplicateCheckPure ==
    /\ [](\A i, j \in 1..Len(dup_results) : dup_results[i] = dup_results[j])
    /\ [][Len(dup_results') = Len(dup_results) + 1 =>
              (store' = store /\ dirs' = dirs)]_vars

\* two checks in a row after a save that wrote the artifact, both answering
\* "duplicate"
C13_Witness ==
    /\ pc = "is_duplicate_returned"
    /\ results # <<>>
    /\ written = 1
    /\ dup_results = <<TRUE, TRUE>>

\* the recognizer returned no line, or the trigger keyword is absent from the
\* lines, or the lines yield no record
EmptyInput ==
    \/ lines = <<>>
    \/ ~check_trigger(lines, config.trigger_keyword)
    \/ (unique_ids(lines) = <<>> /\ unique_serials(lines) = <<>>)

\* C12: a cycle whose frame has no line, lacks the trigger keyword or yields
\* no record never reaches the duplicate check or the save, writes no
\* artifact, creates no folder, and returns the empty list to run
C12_EmptyInputNoEffect ==
    /\ []((pc \in {"trigger", "extract", "dup", "classify", "save", "return"} /\ EmptyInput) =>
            (pc \in {"trigger", "extract", "return"} /\ saved_products = <<>>))
    /\ []((pc = "sleep" /\ exc = "none" /\ EmptyInput) => results = <<>>)
    /\ [][(pc \in {"capture", "ocr", "trigger", "extract", "dup", "classify", "save", "return"}
             /\ EmptyInput) => (store' = store /\ dirs' = dirs)]_vars

\* a second cycle that found the trigger keyword but no record has returned,
\* after a first cycle that saved
C12_Witness ==
    /\ pc = "sleep"
    /\ exc = "none"
    /\ count = 2
    /\ written = 1
    /\ triggered
    /\ products = <<>>
    /\ results = <<>>

\* a record without its filepath
Frozen(info) == [f \in DOMAIN info \ {"filepath"} |-> info[f]]

\* C14: between extraction and the end of the loop over the records no
\* record changes, with or without a classifier, except that filepath is
\* assigned once, at the save, to a record whose filepath was empty
C14_RecordsImmutable ==
    [][(pc \in {"dup", "classify", "save"}) =>
          (/\ Len(products') = Len(products)
           /\ \A i \in 1..Len(products) :
                 /\ Frozen(products'[i]) = Frozen(products[i])
                 /\ (products'[i].filepath # products[i].filepath =>
                       (pc = "save" /\ i = idx /\ products[i].filepath = <<>>)))]_vars

\* {root}/ID_{product_id}/{label_date}/{serial_number}.{format}, as the parts
\* below the root
ExpectedPath(info) ==
    << <<"I", "D", "_">> \o info.product_id,
       info.label_date,
       info.serial_number \o <<".">> \o config.format >>

\* C15: the filepath of a record is empty until the record is saved and is
\* then ID_{product_id}/{label_date}/{serial_number}.{format} below the
\* root; a record skipped as a duplicate keeps the empty filepath; every
\* record run_once returns carries that path; and filepath is assigned only
\* once, with the path save_screenshot returned
C15_FilepathLifecycle ==
    /\ [](\A i \in 1..Len(products) :
            /\ products[i].filepath \in {<<>>, ExpectedPath(products[i])}
            /\ products[i].filepath # <<>> => SavedInCycle(i)
            /\ (i <= Len(dup_results) /\ dup_results[i]) => products[i].filepath = <<>>)
    /\ [](\A j \in 1..Len(saved_products) :
            saved_products[j].filepath = ExpectedPath(saved_products[j]))
    /\ [](\A j \in 1..Len(results) : results[j].filepath = ExpectedPath(results[j]))
    /\ [][\A i \in 1..Len(products) :
            (i <= Len(products') /\ products'[i].filepath # products[i].filepath) =>
                /\ products[i].filepath = <<>>
                /\ products'[i].filepath = SavePath(config, products[i])]_vars

\* a cycle on a frame with two labels has returned: the first record was
\* skipped as a duplicate, the second was saved and returned
C15_Witness ==
    /\ pc = "sleep"
    /\ Len(products) = 2
    /\ dup_results = <<TRUE, FALSE>>
    /\ products[1].filepath = <<>>
    /\ products[2].filepath = ExpectedPath(products[2])
    /\ results = <<products[2]>>
    /\ products[2].filepath \in DOMAIN store

\* a record in which "unknown" stands for the ID or for the serial number
IsSentinel(info) == info.product_id = Unknown \/ info.serial_number = Unknown

\* C16: a sentinel record is deduplicated like any other: once its artifact
\* ID_{id}/{date}/{serial}.{format} has been written, the duplicate check of
\* a later record with the same key answers "duplicate"
C16_SentinelDedup ==
    \A i \in 1..Len(dup_results) :
        (/\ IsSentinel(products[i])
         /\ ~SavedInCycle(i)
         /\ ExpectedPath(products[i]) \in DOMAIN store) => dup_results[i]

\* C17: the records of one call of extract_all_products all carry the text
\* the call was given as raw_text, and the same timestamp and label_date
C17_SharedFields ==
    pc = "extract_returned" =>
        \A i, j \in 1..Len(products) :
            /\ products[i].raw_text = text
            /\ products[i].timestamp = products[j].timestamp
            /\ products[i].label_date = products[j].label_date

\* a call that returned two records
C17_Witness ==
    /\ pc = "extract_returned"
    /\ Len(products) = 2
    /\ products[1].product_id # products[2].product_id
    /\ products[1].raw_text # <<>>

\* C18: with the trigger keyword "fafa", the label "fafa 2532" / name /
\* "ID: 41 (yen)300" yields one record with product_id "41" and, as the
\* number to the right of the trigger keyword, serial_number "2532"
C18_SerialRightOfTrigger ==
    (pc = "extract_returned" /\ lines = DocLabel /\ config.trigger_keyword = Str_fafa) =>
        /\ Len(products) = 1
        /\ products[1].product_id = <<"4", "1">>
        /\ products[1].serial_number = <<"2", "5", "3", "2">>

\* C19: at most one run_once is executing against the save root, whatever
\* sequence of start_monitoring and stop_monitoring the GUI has gone through
C19_NoOverlap == Cardinality(InRunOnce) <= 1

\* the last entry of write_log for path p
LastWrite(p) ==
    write_log[CHOOSE k \in 1..Len(write_log) :
                  /\ write_log[k].path = p
                  /\ \A m \in (k + 1)..Len(write_log) : write_log[m].path # p]

\* C20: two producers on one save root can both be told "not a duplicate"
\* for the same key and both save it; a save is only made after that answer,
\* and the file then holds the image of whichever producer wrote last
C20_LastWriteWins ==
    /\ \A t \in 1..Len(threads) :
          threads[t].pc = "save" =>
              threads[t].dup_results[Len(threads[t].dup_results)] = FALSE
    /\ \A k \in 1..Len(write_log) : write_log[k].path \in DOMAIN store
    /\ \A p \in DOMAIN store : store[p] = LastWrite(p).image

\* two threads were both answered FALSE for the same key and both saved it:
\* the file was written twice and holds the second image
C20_Witness ==
    \E a, b \in 1..Len(threads) :
        /\ a # b
        /\ threads[a].dup_results = <<FALSE>>
        /\ threads[b].dup_results = <<FALSE>>
        /\ Len(threads[a].saved_products) = 1
        /\ Len(threads[b].saved_products) = 1
        /\ threads[a].saved_products[1].filepath = threads[b].saved_products[1].filepath
        /\ \E k, m \in 1..Len(write_log) :
              /\ k < m
              /\ write_log[k].path = threads[a].saved_products[1].filepath
              /\ write_log[m].path = write_log[k].path
              /\ write_log[k].thread = a
              /\ write_log[m].thread = b
              /\ store[write_log[m].path] = threads[b].image
              /\ threads[a].image # threads[b].image

\* what the duplicate check and the save read of a record
Key(info) == << info.product_id, info.serial_number, info.label_date >>

\* C21: the classifier step is invisible to the rest of the cycle.  Whether
\* no classifier is attached, predict succeeds or predict raises, the step
\* goes on to the save of the same record and leaves the store, the image,
\* the saved records and the key of every record as they were; and the path
\* a record is saved under is made of its key and the configured format only
C21_ClassifierTransparent ==
    /\ [][(pc = "classify" /\ ~interrupted') =>
            (/\ pc' = "save"
             /\ idx' = idx
             /\ exc' = exc
             /\ image' = image
             /\ store' = store
             /\ dirs' = dirs
             /\ saved_products' = saved_products
             /\ Len(products') = Len(products)
             /\ \A i \in 1..Len(products) : Key(products'[i]) = Key(products[i]))]_vars
    /\ [][(pc = "save" /\ Len(saved_products') = Len(saved_products) + 1) =>
            (/\ Key(saved_products'[Len(saved_products')]) = Key(products[idx])
             /\ saved_products'[Len(saved_products')].filepath = ExpectedPath(products[idx]))]_vars

\* a cycle with a classifier attached returned two saved records: predict
\* raised for the first and succeeded for the second
C21_Witness ==
    /\ pc = "sleep"
    /\ config.classifier
    /\ Len(results) = 2
    /\ results[1].style_category = Absent
    /\ results[2].style_category # Absent
    /\ results[1].filepath \in DOMAIN store
    /\ results[2].filepath \in DOMAIN store

\* a 1-4 digit token of s: n digits from position p on, with no word
\* character next to them on either side
TokenAt(s, p, n) ==
    /\ p >= 1
    /\ p + n - 1 <= Len(s)
    /\ \A j \in p..(p + n - 1) : s[j] \in Digits
    /\ (p = 1 \/ ~IsWordChar(s[p - 1]))
    /\ (p + n - 1 = Len(s) \/ ~IsWordChar(s[p + n]))

TokenStarts(s) == { p \in 1..Len(s) : \E n \in 1..4 : TokenAt(s, p, n) }

TokenFrom(s, p) == SubSeq(s, p, p + (CHOOSE n \in 1..4 : TokenAt(s, p, n)) - 1)

\* the first and the last token of s, <<>> when s has none
FirstToken(s) ==
    IF TokenStarts(s) = {} THEN <<>>
    ELSE TokenFrom(s, CHOOSE p \in TokenStarts(s) : \A q \in TokenStarts(s) : p <= q)

LastToken(s) ==
    IF TokenStarts(s) = {} THEN <<>>
    ELSE TokenFrom(s, CHOOSE p \in TokenStarts(s) : \A q \in TokenStarts(s) : p >= q)

\* the line holds the marker keyword, whatever the case of its letters
HasMarker(line, marker) == \E p \in 1..Len(line) : OccursAt(Lower(line), marker, p)

\* where the marker first occurs in the line
MarkerPos(line, marker) ==
    CHOOSE p \in 1..Len(line) :
        /\ OccursAt(Lower(line), marker, p)
        /\ \A q \in 1..(p - 1) : ~OccursAt(Lower(line), marker, q)

\* the candidate the four steps give for a marker found in line i, <<>> when
\* no step yields a token
StepCandidate(ls, i, marker) ==
    LET line   == ls[i]
        pos    == MarkerPos(line, marker)
        after  == FirstToken(SubSeq(line, pos + Len(marker), Len(line)))
        before == LastToken(SubSeq(line, 1, pos - 1))
    IN  IF after # <<>> THEN after
        ELSE IF before # <<>> THEN before
        ELSE IF i > 1 /\ FirstToken(ls[i - 1]) # <<>> THEN FirstToken(ls[i - 1])
        ELSE IF i < Len(ls) THEN FirstToken(ls[i + 1])
        ELSE <<>>

\* the candidate of line i: that of the first marker keyword, in the order
\* mtk, yeye, which is on the line and for which a step yields a token
LineCandidate(ls, i) ==
    LET yields(marker) == HasMarker(ls[i], marker) /\ StepCandidate(ls, i, marker) # <<>>
    IN  IF yields(Str_mtk) THEN << StepCandidate(ls, i, Str_mtk) >>
        ELSE IF yields(Str_yeye) THEN << StepCandidate(ls, i, Str_yeye) >>
        ELSE <<>>

RECURSIVE CandidatesFrom(_, _)
CandidatesFrom(ls, i) ==
    IF i > Len(ls) THEN <<>> ELSE LineCandidate(ls, i) \o CandidatesFrom(ls, i + 1)

\* the serial numbers the candidates leave: those in 1..9999, repeats removed
ExpectedSerials(ls) ==
    DedupKeepOrder(SelectSeq(CandidatesFrom(ls, 1), SerialOk), <<>>)

MarkedLines(ls) ==
    { i \in 1..Len(ls) : HasMarker(ls[i], Str_mtk) \/ HasMarker(ls[i], Str_yeye) }

\* C23: the serial scan appends at most one candidate per line: the
\* candidates are, line by line, that of the first marker keyword (mtk, then
\* yeye) for which a step yields a token, and nothing for the other keyword;
\* so a frame has no more candidates, and its records no more serial
\* numbers, than it has lines with a marker
C23_OneCandidatePerLine ==
    pc = "extract_returned" =>
        /\ all_serials(lines) = CandidatesFrom(lines, 1)
        /\ Len(all_serials(lines)) <= Cardinality(MarkedLines(lines))
        /\ Cardinality({ j \in 1..Len(products) : products[j].serial_number # Unknown })
              <= Cardinality(MarkedLines(lines))

\* the frame ["mtk 7 yeye 12"]: one record, with the number of mtk
C23_Witness ==
    /\ pc = "extract_returned"
    /\ lines = << Str_mtk \o Str_sp \o <<"7">> \o Str_sp \o Str_yeye \o Str_sp \o <<"1", "2">> >>
    /\ Len(products) = 1
    /\ products[1].serial_number = <<"7">>

\* the first position from p on that holds no space / no digit
SpacesEnd(s, p) ==
    CHOOSE q \in p..(Len(s) + 1) :
        (\A j \in p..(q - 1) : s[j] = " ") /\ (q > Len(s) \/ s[q] # " ")

DigitsEnd(s, p) ==
    CHOOSE q \in p..(Len(s) + 1) :
        (\A j \in p..(q - 1) : s[j] \in Digits) /\ (q > Len(s) \/ s[q] \notin Digits)

StartsId(s, p) == p + 1 <= Len(s) /\ Lower(SubSeq(s, p, p + 1)) = <<"i", "d">>

\* the digits of an ID written "ID:"/"ID(fullwidth colon)" at p, after any
\* spaces, or <<>>
ColonStyleId(s, p) ==
    IF StartsId(s, p) /\ p + 2 <= Len(s) /\ s[p + 2] \in {":", FWColon}
    THEN LET a == SpacesEnd(s, p + 3) IN SubSeq(s, a, DigitsEnd(s, a) - 1)
    ELSE <<>>

\* the digits of an ID written "ID" + spaces at p, or <<>>
SpaceStyleId(s, p) ==
    IF StartsId(s, p) /\ SpacesEnd(s, p + 2) > p + 2
    THEN LET a == SpacesEnd(s, p + 2) IN SubSeq(s, a, DigitsEnd(s, a) - 1)
    ELSE <<>>

\* the rank of ID v in the text s: its first colon-style position, or, for
\* an ID that is only written in the bare-space style, its first position
\* there, after all colon-style positions
IdRank(s, v) ==
    LET colon == { p \in 1..Len(s) : ColonStyleId(s, p) = v }
        space == { p \in 1..Len(s) : SpaceStyleId(s, p) = v }
    IN  IF colon # {} THEN CHOOSE p \in colon : \A q \in colon : p <= q
        ELSE Len(s) + (CHOOSE p \in space : \A q \in space : p <= q)

\* C24: the IDs of the records are all IDs written in the text, colon-style
\* ones in text order before bare-space-style ones in text order, each once
C24_IdCollectionOrder ==
    pc = "extract_returned" =>
        LET s    == JoinLines(lines)
            Vals == ({ ColonStyleId(s, p) : p \in 1..Len(s) }
                        \cup { SpaceStyleId(s, p) : p \in 1..Len(s) }) \ {<<>>}
        IN  IF Vals = {}
            THEN \A j \in 1..Len(products) : products[j].product_id = Unknown
            ELSE /\ Len(products) = Cardinality(Vals)
                 /\ { products[j].product_id : j \in 1..Len(products) } = Vals
                 /\ \A i, j \in 1..Len(products) :
                       i < j => IdRank(s, products[i].product_id)
                                   < IdRank(s, products[j].product_id)

\* the frame ["id 5", "ID: 41"]: the colon-style 41 comes first
C24_Witness ==
    /\ pc = "extract_returned"
    /\ lines = << <<"i", "d", " ", "5">>, Str_ID41 >>
    /\ Len(products) = 2
    /\ products[1].product_id = <<"4", "1">>
    /\ products[2].product_id = <<"5">>

RECURSIVE KeptFrom(_)
\* the records from position i on for which is_duplicate answered False
KeptFrom(i) ==
    IF i > Len(products) \/ i > Len(dup_results) THEN <<>>
    ELSE (IF dup_results[i] THEN <<>> ELSE << Key(products[i]) >>) \o KeptFrom(i + 1)

\* run_once has returned without a failure: every extracted record has been
\* through the duplicate check once, in extraction order, each is either
\* skipped or saved, and the saved records, in that order, are the result
ReturnedInOrder ==
    /\ pc = "sleep"
    /\ exc = "none"
    /\ Len(dup_results) = Len(products)
    /\ \A i \in 1..Len(products) : dup_results[i] <=> ~SavedInCycle(i)
    /\ [j \in 1..Len(saved_products) |-> Key(saved_products[j])] = KeptFrom(1)
    /\ results = saved_products

\* the cycle ended in run's except handler, or Ctrl+C ended the loop
CycleFailed == (pc = "sleep" /\ exc # "none") \/ pc = "stopped"

\* C25: a cycle that has begun comes to its end, and unless a collaborator
\* failed or the loop was interrupted it ends with every record processed
\* once and in order and with exactly the saved records returned
C25_CycleCompletion == (pc = "capture") ~> (ReturnedInOrder \/ CycleFailed)

\* a cycle on a frame with two labels has returned without a failure: one
\* record was skipped, the other saved and returned
C25_Witness ==
    /\ pc = "sleep"
    /\ exc = "none"
    /\ Len(products) = 2
    /\ dup_results = <<TRUE, FALSE>>
    /\ Len(results) = 1
    /\ Key(results[1]) = Key(products[2])

\* C26: with one producer running its cycles one after the other,
\* save_screenshot is never called for a path at which an artifact exists
C26_NoOverwrite ==
    pc = "save" => SavePath(config, products[idx]) \notin DOMAIN store

\* C27: every record run_once returned has an artifact in the store at its
\* filepath
C27_ReportedSavesExist ==
    (pc = "sleep" /\ exc = "none") =>
        \A j \in 1..Len(results) : results[j].filepath \in DOMAIN store

\* C28: the records of one extraction have pairwise distinct product_ids
\* when an ID was found and pairwise distinct serial numbers otherwise, so
\* their (product_id, serial_number) pairs and the paths they are saved
\* under are pairwise distinct
C28_DistinctTargets ==
    pc = "extract_returned" =>
        \A i, j \in 1..Len(products) :
            i # j =>
                /\ IF products[1].product_id # Unknown
                   THEN products[i].product_id # products[j].product_id
                   ELSE products[i].serial_number # products[j].serial_number
                /\ << products[i].product_id, products[i].serial_number >>
                      # << products[j].product_id, products[j].serial_number >>
                /\ SavePath(config, products[i]) # SavePath(config, products[j])

\* the frame ["ID: 41", "ID:42"]: two records with the same serial number
\* "unknown" and different IDs
C28_Witness ==
    /\ pc = "extract_returned"
    /\ lines = << Str_ID41, <<"I", "D", ":", "4", "2">> >>
    /\ Len(products) = 2
    /\ products[1].serial_number = products[2].serial_number
    /\ SavePath(config, products[1]) # SavePath(config, products[2])

\* the month and the day of a timestamp YYYYMMDD_HHMMSS, as MM-DD
MonthDayOf(timestamp) == SubSeq(timestamp, 5, 6) \o <<"-">> \o SubSeq(timestamp, 7, 8)

\* C29: the label_date of every record is the month and day of the record's
\* timestamp
C29_DateConsistency ==
    \A i \in 1..Len(products) : products[i].label_date = MonthDayOf(products[i].timestamp)

RECURSIVE SumOf(_, _)
\* the sum of f over the set S of arguments
SumOf(f, S) ==
    IF S = {} THEN 0
    ELSE LET x == CHOOSE y \in S : TRUE IN f[x] + SumOf(f, S \ {x})

\* C30: between the cycles of run, saved_count is the number of artifacts
\* this run has written and the sum of the per-ID counts of saved_ids
C30_StatisticsMatchStore ==
    pc \in {"loop", "sleep"} =>
        /\ saved_count = written
        /\ saved_count = SumOf(saved_ids, DOMAIN saved_ids)

====
